---- MODULE Spec2Model ----
(***************************************************************************)
(* URL shortener: the creation pipeline (ShortenURL), the redirect         *)
(* resolver (RedirectURL) and the one-shot scheduled re-check              *)
(* (scheduleURLCheck) of controllers/url_controller.go, over the           *)
(* UrlMapping / MaliciousLog tables of the models package.                 *)
(*                                                                         *)
(* url_controller.go holds two builds of the controller: lines 1-166       *)
(* (expiry dates, no scheduler, no safety check) and lines 168-393         *)
(* (scheduler and safety check, no expiry dates).  A deployment runs one   *)
(* of them; the variable build says which.                                 *)
(***************************************************************************)
EXTENDS Integers, Sequences, FiniteSets, Bags, TLC

\* ------------------------------------------------------------------ bounds
MaxTime == 1          \* the clock runs over 0..MaxTime
NumCodes == 2         \* how many distinct 8-character codes uuid can produce
MaxRows == 1          \* Spec: creation requests that got as far as a built urlMapping
MaxRacers == 2        \* SpecRace: the same

\* ------------------------------------------------------------- URL strings
\* A URL is the sequence of its characters.
S_https == <<"h","t","t","p","s">>

U_empty      == << >>                                       \* ""
U_a          == <<"h","t","t","p","s",":","/","/","a">>     \* "https://a"
U_B          == <<"H","T","T","P","S",":","/","/","b">>     \* "HTTPS://b"
U_http       == <<"h","t","t","p",":","/","/","a">>         \* "http://a"
U_httpNoHost == <<"h","t","t","p",":","/","a">>             \* "http:/a"
U_opaque     == <<"h","t","t","p","s",":","a">>             \* "https:a"
U_noHost     == <<"h","t","t","p","s",":","/","/">>         \* "https://"
U_bare       == <<"a","/","b">>                             \* "a/b"
U_netpath    == <<"/","/","a">>                             \* "//a"
U_colon      == <<":","/","/","a">>                         \* "://a"
U_segColon   == <<"1","a",":","b">>                         \* "1a:b"
U_ctl        == <<"h","t","t","p","s",":","/","/","a","\n">> \* "https://a\n"

URLs == { U_empty, U_a, U_B, U_http, U_httpNoHost, U_opaque, U_noHost,
          U_bare, U_netpath, U_colon, U_segColon, U_ctl }

Lower == {"h","t","p","s","a","b"}
Upper == {"H","T","P","S"}
Digit == {"1"}

ToLowerChar(c) ==
    CASE c = "H" -> "h" [] c = "T" -> "t" [] c = "P" -> "p" [] c = "S" -> "s"
      [] OTHER -> c

ToLower(s) == [i \in 1..Len(s) |-> ToLowerChar(s[i])]

\* strings.Index: the first position of c in s, 0 if none (1-based)
IndexOf(s, c) ==
    IF \E i \in 1..Len(s) : s[i] = c
    THEN CHOOSE i \in 1..Len(s) : s[i] = c /\ \A j \in 1..(i-1) : s[j] # c
    ELSE 0

HasPrefix(s, p) == Len(s) >= Len(p) /\ SubSeq(s, 1, Len(p)) = p

\* net/url getScheme: [scheme, rest, err]
RECURSIVE getSchemeFrom(_, _)
getSchemeFrom(rawURL, i) ==
    IF i > Len(rawURL) THEN [scheme |-> << >>, rest |-> rawURL, err |-> FALSE]
    ELSE LET c == rawURL[i] IN
         IF c \in Lower \cup Upper THEN getSchemeFrom(rawURL, i + 1)
         ELSE IF c \in Digit \cup {"+", "-", "."}
              THEN IF i = 1
                   THEN [scheme |-> << >>, rest |-> rawURL, err |-> FALSE]
                   ELSE getSchemeFrom(rawURL, i + 1)
         ELSE IF c = ":"
              THEN IF i = 1
                   THEN [scheme |-> << >>, rest |-> << >>, err |-> TRUE]
                   ELSE [scheme |-> SubSeq(rawURL, 1, i - 1),
                         rest |-> SubSeq(rawURL, i + 1, Len(rawURL)),
                         err |-> FALSE]
         ELSE [scheme |-> << >>, rest |-> rawURL, err |-> FALSE]

getScheme(rawURL) == getSchemeFrom(rawURL, 1)

stringContainsCTLByte(s) == \E i \in 1..Len(s) : s[i] = "\n"

ParseError == [err |-> TRUE, Scheme |-> << >>, Host |-> << >>]

\* net/url Parse, for URLs without query, fragment, userinfo or port:
\* [err, Scheme, Host]
urlParse(rawURL) ==
    IF stringContainsCTLByte(rawURL) THEN ParseError
    ELSE LET g == getScheme(rawURL) IN
         IF g.err THEN ParseError
         ELSE LET scheme == ToLower(g.scheme)
                  rest == g.rest
                  slash == IndexOf(rest, "/")
                  segment == IF slash = 0 THEN rest ELSE SubSeq(rest, 1, slash - 1)
              IN
              IF ~HasPrefix(rest, <<"/">>) /\ scheme # << >>
              THEN [err |-> FALSE, Scheme |-> scheme, Host |-> << >>]   \* opaque
              ELSE IF ~HasPrefix(rest, <<"/">>) /\ IndexOf(segment, ":") # 0
              THEN ParseError        \* first path segment cannot contain colon
              ELSE IF (scheme # << >> \/ ~HasPrefix(rest, <<"/","/","/">>))
                      /\ HasPrefix(rest, <<"/","/">>)
              THEN LET auth == SubSeq(rest, 3, Len(rest))
                       cut == IndexOf(auth, "/")
                   IN [err |-> FALSE, Scheme |-> scheme,
                       Host |-> IF cut = 0 THEN auth ELSE SubSeq(auth, 1, cut - 1)]
              ELSE [err |-> FALSE, Scheme |-> scheme, Host |-> << >>]

\* utils.ValidateURLSyntax: "" for nil, else the wrapped error
ValidateURLSyntax_SchemeFirst(inputURL) ==
    LET parsedURL == urlParse(inputURL) IN
    IF ~parsedURL.err /\ parsedURL.Scheme # << >> /\ parsedURL.Scheme # S_https
    THEN "URL scheme is not HTTPS"
    ELSE IF parsedURL.err \/ parsedURL.Scheme = << >> \/ parsedURL.Host = << >>
    THEN "invalid URL syntax"
    ELSE ""

ValidateURLSyntax_NoSchemeCheck(inputURL) ==
    LET parsedURL == urlParse(inputURL) IN
    IF parsedURL.err \/ parsedURL.Scheme = << >> \/ parsedURL.Host = << >>
    THEN "invalid URL syntax"
    ELSE ""

ValidateURLSyntax(inputURL) ==
    LET parsedURL == urlParse(inputURL) IN
    IF parsedURL.err \/ parsedURL.Scheme = << >> \/ parsedURL.Host = << >>
    THEN "invalid URL syntax"
    ELSE IF parsedURL.Scheme # S_https
    THEN "URL scheme is not HTTPS"
    ELSE ""


\* ------------------------------------------------------------------- state
VARIABLES
    build,          \* "expiry": url_controller.go 1-166; "scheduler": 168-393
    now,            \* time.Now()
    urlMappings,    \* table url_mappings; a row's ID is its index
    maliciousLogs,  \* table malicious_logs
    inflight,       \* bag of requests that built urlMapping and have not inserted
    jobs,           \* the gocron scheduler's one-shot jobs
    supplied,       \* history: shortCode -> req.URL of the request that created it
    checked,        \* history: the callbacks that have run, each with its outcome
    resp            \* the HTTP response a handler has just written, until it returns

vars == <<build, now, urlMappings, maliciousLogs, inflight, jobs, supplied, checked,
          resp>>

Builds == {"expiry", "scheduler"}
Times == 0..MaxTime
NoDate == -1                         \* a nil *time.Time
Dates == Times \cup {NoDate}
Codes == 1..NumCodes                 \* values of uuid.New().String()[:8]
NoURL == <<"?">>

\* client.Head outcomes: a transport error, or the response's status code
NetErr == 0
HeadOutcomes == {NetErr, 200, 404}
\* utils.CheckIfURLIsLive outcomes (isLive, err)
LiveOutcomes == {"live", "notlive", "error"}

\* url: the decoded req.URL of a ShortenURL request (NoURL if the body did not
\* decode); code: the short code of the request path or of the short_url returned
\* err: the store error the handler logged; calls: the outbound calls the
\* handler issued, in order; inserts: how often it called db.DB.Create;
\* safety: what its safety check met ("none": no safety check was made)
NoResp == [op |-> "none", http |-> 0, msg |-> "", url |-> NoURL, code |-> 0,
           status |-> "", location |-> NoURL, err |-> "", calls |-> << >>,
           inserts |-> 0, safety |-> "none"]

\* what a call of the Safe Browsing service meets: no API key configured, a
\* failed request or an undecodable answer, an answer with matches, one without
SafetyOutcomes == {"no key", "failed", "match", "clean"}

\* utils.CheckSafeBrowsing: (result.IsSafe, err)
CheckSafeBrowsing(met) ==
    CASE met = "no key" -> [IsSafe |-> TRUE, err |-> "safe Browsing API key is missing"]
      [] met = "failed" -> [IsSafe |-> TRUE, err |-> "request failed"]
      [] met = "match"  -> [IsSafe |-> FALSE, err |-> ""]
      [] OTHER          -> [IsSafe |-> TRUE, err |-> ""]

\* the one bool the scheduler build's ShortenURL gets from its safety check.
\* Without an error it is result.IsSafe; what becomes of an error in that bool
\* is not in the source, so either value may come back.
IsSafeAnswers(met) ==
    IF CheckSafeBrowsing(met).err = "" THEN {CheckSafeBrowsing(met).IsSafe}
    ELSE BOOLEAN

\* the outbound calls of ShortenURL, in the order of its statements
Pipeline(b) ==
    IF b = "expiry" THEN <<"CheckURLStatus">>
    ELSE <<"CheckRedirects", "CheckSafeBrowsing", "CheckIfURLIsLive">>

\* the calls a handler has issued when it answers after the n-th of them
Issued_All(b, n) == Pipeline(b)

Issued(b, n) == SubSeq(Pipeline(b), 1, n)

\* models.UrlMapping as built by the handler.  A row's ID is its place in the
\* table; CreatedAt and CheckInterval are written once and never read.
Mapping(shortCode, url, live, expiry, status, t) ==
    [ShortCode |-> shortCode, OriginalUrl |-> url, IntendedLiveDate |-> live,
     IntendedExpiryDate |-> expiry, Status |-> status, LastCheckedAt |-> t]

\* ----------------------------------------------- ShortenURL, build "expiry"
StatusOfA(isLive) == IF isLive THEN "live" ELSE "inactive"

\* the date checks; "" when both pass
ValidateDatesA_NoExpiryCheck(live, expiry, t) ==
    IF live # NoDate /\ expiry # NoDate /\ live > expiry
    THEN "Live date cannot be after expiry date"
    ELSE ""

ValidateDatesA_NoOrderCheck(live, expiry, t) ==
    IF expiry # NoDate /\ expiry < t
    THEN "Expiry date cannot be in the past"
    ELSE ""

ValidateDatesA(live, expiry, t) ==
    IF expiry # NoDate /\ expiry < t
    THEN "Expiry date cannot be in the past"
    ELSE IF live # NoDate /\ expiry # NoDate /\ live > expiry
    THEN "Live date cannot be after expiry date"
    ELSE ""

\* line 65
IsLiveA(statusCode) == statusCode >= 200 /\ statusCode < 300

\* -------------------------------------------- ShortenURL, build "scheduler"
StatusOfB(isLive) == IF isLive THEN "live" ELSE "inactive"

\* lines 253-263: "" when the handler goes on
LiveDateCheckB(isLive, live, t) ==
    IF ~isLive /\ live # NoDate /\ live < t
    THEN "Intended live date must be in the future."
    ELSE ""

\* logMaliciousURL: the row it inserts (no handler calls it)
logMaliciousURL(url) ==
    [URL |-> url, RiskScore |-> 5, Details |-> "Failed Safe Browsing check"]

\* ------------------------------------------------------------- persistence
\* the uniqueIndex on short_code
UniqueConflict_Never(rows, m) == FALSE

UniqueConflict(rows, m) == \E i \in 1..Len(rows) : rows[i].ShortCode = m.ShortCode

\* db.DB.Where("short_code = ?", shortCode).First: the row's ID, 0 if none
FindByShortCode(rows, shortCode) ==
    IF \E i \in 1..Len(rows) : rows[i].ShortCode = shortCode
    THEN CHOOSE i \in 1..Len(rows) :
            /\ rows[i].ShortCode = shortCode
            /\ \A j \in 1..(i - 1) : rows[j].ShortCode # shortCode
    ELSE 0

Init ==
    /\ build \in Builds
    /\ now = 0
    /\ urlMappings = << >>
    /\ maliciousLogs = << >>
    /\ inflight = EmptyBag
    /\ jobs = {}
    /\ supplied = [c \in Codes |-> NoURL]
    /\ checked = {}
    /\ resp = NoResp

\* generateShortCode: uuid.New().String()[:8].  Codes are interchangeable, so a
\* code that no request has drawn yet is represented by the least such code.
DrawnCodes ==
    {urlMappings[i].ShortCode : i \in 1..Len(urlMappings)}
        \cup {r.urlMapping.ShortCode : r \in BagToSet(inflight)}

generateShortCode ==
    DrawnCodes \cup {c \in Codes \ DrawnCodes : \A d \in Codes \ DrawnCodes : c <= d}

ShortenError_Stores(met, n, url, http, msg) ==
    /\ resp' = [NoResp EXCEPT !.op = "shorten", !.http = http, !.msg = msg, !.url = url,
                              !.calls = Issued(build, n), !.safety = met]
    /\ urlMappings' = Append(urlMappings,
                             Mapping(1, url, NoDate, NoDate, "inactive", now))
    /\ UNCHANGED <<build, now, maliciousLogs, inflight, jobs, supplied, checked>>

\* an error response of ShortenURL, written after n outbound calls
ShortenError(met, n, url, http, msg) ==
    /\ resp' = [NoResp EXCEPT !.op = "shorten", !.http = http, !.msg = msg, !.url = url,
                              !.calls = Issued(build, n), !.safety = met]
    /\ UNCHANGED <<build, now, urlMappings, maliciousLogs, inflight, jobs, supplied,
                 checked>>

\* a creation request arrives while fewer than cap mappings are stored or on
\* their way to the store; unless concurrent, only when no other request is
\* between its built urlMapping and db.DB.Create
Arrives(concurrent, cap) ==
    /\ concurrent \/ inflight = EmptyBag
    /\ BagCardinality(inflight) + Len(urlMappings) < cap

\* the handler has built urlMapping and goes on to db.DB.Create
Built(concurrent, cap, met, url, m, isLive) ==
    /\ Arrives(concurrent, cap)
    /\ inflight' = inflight (+) SetToBag({[reqURL |-> url, urlMapping |-> m,
                                           isLive |-> isLive, safety |-> met]})
    /\ UNCHANGED <<build, now, urlMappings, maliciousLogs, jobs, supplied, checked, resp>>

\* ShortenURL of lines 41-93, up to the built urlMapping
ShortenURL_A(concurrent, urls, dates, cap) ==
    /\ build = "expiry"
    /\ resp = NoResp
    /\ Arrives(concurrent, cap)
    /\ \E badBody \in BOOLEAN, url \in urls :
        IF badBody \/ url = U_empty
        THEN ShortenError("none", 0, IF badBody THEN NoURL ELSE url, 400,
                          "Invalid request payload")
        ELSE IF ValidateURLSyntax(url) # ""
        THEN ShortenError("none", 0, url, 400, ValidateURLSyntax(url))
        ELSE \E head \in HeadOutcomes :
            IF head = NetErr
            THEN ShortenError("none", 1, url, 500,
                              "Error checking URL status. Please try again.")
            ELSE \E live \in dates, expiry \in dates :
                IF ValidateDatesA(live, expiry, now) # ""
                THEN ShortenError("none", 1, url, 400, ValidateDatesA(live, expiry, now))
                ELSE \E shortCode \in generateShortCode :
                    Built(concurrent, cap, "none", url, Mapping(shortCode, url, live, expiry,
                                       StatusOfA(IsLiveA(head)), now),
                          IsLiveA(head))

\* ShortenURL of lines 213-275, up to the built urlMapping.  utils.CheckRedirects
\* (line 229) only logs.  met is what the safety check meets, isSafe and probe
\* are what utils.CheckSafeBrowsing and utils.CheckIfURLIsLive return to the
\* handler.
ShortenURL_B(concurrent, urls, dates, cap) ==
    /\ build = "scheduler"
    /\ resp = NoResp
    /\ Arrives(concurrent, cap)
    /\ \E badBody \in BOOLEAN, url \in urls, live \in dates :
        IF badBody \/ url = U_empty
        THEN ShortenError("none", 0, IF badBody THEN NoURL ELSE url, 400,
                          "Invalid request payload")
        ELSE IF ValidateURLSyntax(url) # ""
        THEN ShortenError("none", 0, url, 400, ValidateURLSyntax(url))
        ELSE \E met \in SafetyOutcomes : \E isSafe \in IsSafeAnswers(met) :
            IF ~isSafe
            THEN ShortenError(met, 2, url, 400, "This URL is potentially unsafe.")
            ELSE \E probe \in LiveOutcomes :
                IF probe = "error"
                THEN ShortenError(met, 3, url, 500,
                                  "Error checking URL status. Please try again.")
                ELSE IF LiveDateCheckB(probe = "live", live, now) # ""
                THEN ShortenError(met, 3, url, 400,
                                  LiveDateCheckB(probe = "live", live, now))
                ELSE \E shortCode \in generateShortCode :
                    Built(concurrent, cap, met, url, Mapping(shortCode, url, live, NoDate,
                                       StatusOfB(probe = "live"), now),
                          probe = "live")

ScheduledFor_NotLive(r, id) ==
    IF build = "scheduler" /\ ~r.isLive
    THEN {[urlID |-> id, at |-> r.urlMapping.IntendedLiveDate]}
    ELSE {}

\* the job scheduleURLCheck registers after a successful insert (lines 283-286)
ScheduledFor(r, id) ==
    IF build = "scheduler" /\ ~r.isLive /\ r.urlMapping.IntendedLiveDate # NoDate
    THEN {[urlID |-> id, at |-> r.urlMapping.IntendedLiveDate]}
    ELSE {}

\* ShortenURL from db.DB.Create to the response: lines 95-112 and 277-294
Create ==
    \E r \in BagToSet(inflight), dbErr \in BOOLEAN :
        /\ resp = NoResp
        /\ inflight' = inflight (-) SetToBag({r})
        /\ IF dbErr \/ UniqueConflict(urlMappings, r.urlMapping)
           THEN /\ resp' = [NoResp EXCEPT !.op = "shorten", !.http = 500, !.url = r.reqURL,
                               !.msg = "Error creating shortened URL. Please try again.",
                               !.calls = Pipeline(build), !.inserts = 1,
                               !.safety = r.safety,
                               !.err = IF dbErr THEN "store unavailable"
                                       ELSE "duplicate key value violates unique constraint"]
                /\ UNCHANGED <<urlMappings, jobs, supplied>>
           ELSE /\ urlMappings' = Append(urlMappings, r.urlMapping)
                /\ jobs' = jobs \cup ScheduledFor(r, Len(urlMappings) + 1)
                /\ supplied' = [supplied EXCEPT ![r.urlMapping.ShortCode] = r.reqURL]
                /\ resp' = [NoResp EXCEPT !.op = "shorten", !.http = 200, !.url = r.reqURL,
                               !.code = r.urlMapping.ShortCode,
                               !.calls = Pipeline(build), !.inserts = 1,
                               !.safety = r.safety,
                               !.status = IF build = "expiry"
                                          THEN r.urlMapping.Status ELSE ""]
        /\ UNCHANGED <<build, now, maliciousLogs, checked>>

\* ------------------------------------------------------------- RedirectURL
Found_Lowered(m) == [http |-> 302, msg |-> "", location |-> ToLower(m.OriginalUrl)]

\* http.Redirect(w, r, urlMapping.OriginalUrl, http.StatusFound)
Found(m) == [http |-> 302, msg |-> "", location |-> m.OriginalUrl]
Gone(msg) == [http |-> 410, msg |-> msg, location |-> NoURL]

RedirectA_StatusFirst(m, t) ==
    IF m.Status = "live" THEN Found(m)
    ELSE IF m.IntendedExpiryDate # NoDate /\ t > m.IntendedExpiryDate
    THEN Gone("This URL has expired.")
    ELSE Gone("This URL is not currently live.")

\* lines 132-144, for the row found
RedirectA(m, t) ==
    IF m.IntendedExpiryDate # NoDate /\ t > m.IntendedExpiryDate
    THEN Gone("This URL has expired.")
    ELSE IF m.Status # "live" THEN Gone("This URL is not currently live.")
    ELSE Found(m)

\* lines 313-319, for the row found
RedirectB(m, t) ==
    IF m.Status # "live" THEN Gone("This URL is not currently live.")
    ELSE Found(m)

RedirectURL ==
    \E shortCode \in Codes, dbErr \in BOOLEAN :
        LET id == FindByShortCode(urlMappings, shortCode)
            out == IF dbErr
                   THEN [http |-> 500, msg |-> "Internal server error.", location |-> NoURL]
                   ELSE IF id = 0
                   THEN [http |-> 404, msg |-> "URL not found.", location |-> NoURL]
                   ELSE IF build = "expiry" THEN RedirectA(urlMappings[id], now)
                   ELSE RedirectB(urlMappings[id], now)
        IN /\ resp = NoResp
           /\ resp' = [NoResp EXCEPT !.op = "redirect", !.http = out.http,
                          !.msg = out.msg, !.code = shortCode,
                          !.location = out.location]
           /\ UNCHANGED <<build, now, urlMappings, maliciousLogs, inflight, jobs,
                          supplied, checked>>

\* -------------------------------------------------------- scheduleURLCheck
CheckedStatus_Never(m, probe) == m.Status

CheckedStatus_Toggle(m, probe) ==
    IF probe # "live" THEN m.Status
    ELSE IF m.Status = "live" THEN "inactive" ELSE "live"

\* the callback's update of the row it fetched (lines 376-387)
CheckedStatus(m, probe) == IF probe = "live" THEN "live" ELSE m.Status

\* how a run of the callback ended: db.DB.First failed (probe is then never
\* made), utils.CheckIfURLIsLive failed, or the probe's answer
Outcome(dbErr, probe) ==
    IF dbErr THEN "lookup error"
    ELSE IF probe = "error" THEN "probe error"
    ELSE probe

\* the table after a run of the callback for row urlID (lines 368-388)
Checked_ErrorInactive(rows, urlID, dbErr, probe) ==
    IF dbErr THEN rows
    ELSE IF probe = "error" THEN [rows EXCEPT ![urlID].Status = "inactive",
                                              ![urlID].LastCheckedAt = now]
    ELSE [rows EXCEPT ![urlID].Status = CheckedStatus(rows[urlID], probe)]

Checked(rows, urlID, dbErr, probe) ==
    IF dbErr \/ probe = "error" THEN rows
    ELSE [rows EXCEPT ![urlID].Status = CheckedStatus(rows[urlID], probe)]

\* the callback of a job, run by the scheduler at or after its time
Fire ==
    \E j \in jobs, dbErr \in BOOLEAN, probe \in LiveOutcomes :
        /\ resp = NoResp
        /\ now >= j.at
        /\ jobs' = jobs \ {j}
        /\ urlMappings' = Checked(urlMappings, j.urlID, dbErr, probe)
        /\ checked' = checked \cup {[urlID |-> j.urlID,
                                      outcome |-> Outcome(dbErr, probe)]}
        /\ UNCHANGED <<build, now, maliciousLogs, inflight, supplied, resp>>

\* the wall clock
Tick ==
    /\ resp = NoResp
    /\ now < MaxTime
    /\ now' = now + 1
    /\ UNCHANGED <<build, urlMappings, maliciousLogs, inflight, jobs, supplied, checked,
                   resp>>

\* the handler that wrote resp returns.  No step reads resp, so taking every
\* other step only from a state without a response loses no behaviour of the
\* tables, the scheduler or the clock.
Return ==
    /\ resp # NoResp
    /\ resp' = NoResp
    /\ UNCHANGED <<build, now, urlMappings, maliciousLogs, inflight, jobs, supplied,
                 checked>>

\* One creation request at a time, with every URL and every date.
Shorten ==
    \/ ShortenURL_A(FALSE, URLs, Dates, MaxRows)
    \/ ShortenURL_B(FALSE, URLs, Dates, MaxRows)

Next == Shorten \/ Create \/ RedirectURL \/ Fire \/ Tick \/ Return

Spec == Init /\ [][Next]_vars

\* Concurrent creation requests racing on the short code, without dates and
\* within one instant.
ShortenRace ==
    \/ ShortenURL_A(TRUE, {U_a, U_B}, {NoDate}, MaxRacers)
    \/ ShortenURL_B(TRUE, {U_a, U_B}, {NoDate}, MaxRacers)

NextRace == ShortenRace \/ Create \/ RedirectURL \/ Return

SpecRace == Init /\ [][NextRace]_vars


\* ================================================================== claims
Rows == {urlMappings[i] : i \in 1..Len(urlMappings)}
Building == {r.urlMapping : r \in BagToSet(inflight)}

MsgNotHttps == "URL scheme is not HTTPS"
MsgInvalidSyntax == "invalid URL syntax"
MsgUnsafe == "This URL is potentially unsafe."
MsgExpiryPast == "Expiry date cannot be in the past"
MsgLiveAfterExpiry == "Live date cannot be after expiry date"

\* the row a redirect request's short code names, if any
Named == {m \in Rows : m.ShortCode = resp.code}

\* C1: a redirect request for a mapping whose IntendedExpiryDate is set and
\* earlier than the current time is answered 410 Gone (when the lookup itself
\* did not fail) and never with a redirect, whatever the stored Status is.
C1_ExpiredIsGone ==
    \A m \in Named :
        (resp.op = "redirect" /\ m.IntendedExpiryDate # NoDate
            /\ m.IntendedExpiryDate < now)
        => /\ resp.http # 302
           /\ resp.location = NoURL
           /\ resp.http # 500 => resp.http = 410

C1_Witness ==
    /\ resp.op = "redirect" /\ resp.http = 410
    /\ \E m \in Named : /\ m.Status = "live"
                        /\ m.IntendedExpiryDate # NoDate
                        /\ m.IntendedExpiryDate < now

\* C2: when the lookup itself succeeds, a redirect request is answered 404 if no
\* mapping has the code; else 410 if the mapping is past its expiry; else 410 if
\* its Status is not live; else 302 to exactly the URL supplied at creation.
C2_ResolveOutcome ==
    (resp.op = "redirect" /\ resp.http # 500) =>
        IF Named = {}
        THEN resp.http = 404 /\ resp.location = NoURL
        ELSE \A m \in Named :
            IF m.IntendedExpiryDate # NoDate /\ m.IntendedExpiryDate < now
            THEN resp.http = 410 /\ resp.location = NoURL
            ELSE IF m.Status # "live"
            THEN resp.http = 410 /\ resp.location = NoURL
            ELSE resp.http = 302 /\ resp.location = supplied[resp.code]
                    /\ supplied[resp.code] \in URLs

C2_Witness ==
    /\ resp.op = "redirect" /\ resp.http = 302
    /\ resp.location = U_B /\ supplied[resp.code] = U_B

\* C3: the initial status of a created mapping is live if the probe at
\* submission succeeded, else pending if an IntendedLiveDate in the future was
\* supplied, else inactive.
C3_InitialStatus ==
    \A r \in BagToSet(inflight) :
        r.urlMapping.Status =
            IF r.isLive THEN "live"
            ELSE IF r.urlMapping.IntendedLiveDate # NoDate
                    /\ r.urlMapping.IntendedLiveDate > r.urlMapping.LastCheckedAt
                 THEN "pending"
                 ELSE "inactive"

\* C4: no two rows of url_mappings ever share a ShortCode, however creation
\* requests that drew the same code interleave.
C4_UniqueShortCodes ==
    \A i, j \in 1..Len(urlMappings) :
        i # j => urlMappings[i].ShortCode # urlMappings[j].ShortCode

\* the loser of a race: its insert hit the unique index of the winner's row
C4_Witness ==
    /\ resp.op = "shorten" /\ resp.http = 500
    /\ resp.err = "duplicate key value violates unique constraint"
    /\ Len(urlMappings) >= 1

\* what url.Parse makes of the decoded URL of the last ShortenURL request
Asked == urlParse(resp.url)
WasAsked == resp.op = "shorten" /\ resp.url # NoURL

\* C5 as written: every input whose scheme is other than https fails with
\* NotHttps.
C5_Original ==
    (WasAsked /\ ~Asked.err /\ Asked.Scheme # << >> /\ Asked.Scheme # S_https)
    => resp.http = 400 /\ resp.msg = MsgNotHttps

\* C5 amended: every input that parses with a non-empty host and a non-empty
\* scheme other than https fails with NotHttps.
C5_NotHttps ==
    (WasAsked /\ ~Asked.err /\ Asked.Scheme # << >> /\ Asked.Scheme # S_https
        /\ Asked.Host # << >>)
    => resp.http = 400 /\ resp.msg = MsgNotHttps

C5_Witness ==
    WasAsked /\ resp.url = U_http /\ resp.msg = MsgNotHttps

\* C6 as written: every input that fails to parse, lacks a host or has an
\* empty scheme fails with InvalidSyntax.
C6_Original ==
    (WasAsked /\ (Asked.err \/ Asked.Scheme = << >> \/ Asked.Host = << >>))
    => resp.http = 400 /\ resp.msg = MsgInvalidSyntax

\* C6 amended: every non-empty input that fails to parse, lacks a host or has
\* an empty scheme fails with InvalidSyntax, whatever its scheme.
C6_InvalidSyntax ==
    (WasAsked /\ resp.url # U_empty
        /\ (Asked.err \/ Asked.Scheme = << >> \/ Asked.Host = << >>))
    => resp.http = 400 /\ resp.msg = MsgInvalidSyntax

\* the precedence: a scheme other than https, and no host
C6_Witness ==
    WasAsked /\ resp.url = U_httpNoHost /\ resp.msg = MsgInvalidSyntax

\* C7: no creation request whose IntendedExpiryDate is earlier than the time of
\* the request gets as far as a built urlMapping, let alone a row.
C7_PastExpiryRejected ==
    \A m \in Rows \cup Building :
        m.IntendedExpiryDate # NoDate => m.IntendedExpiryDate >= m.LastCheckedAt

C7_Witness ==
    resp.op = "shorten" /\ resp.http = 400 /\ resp.msg = MsgExpiryPast

\* C8: every mapping built or stored that has both dates has
\* IntendedLiveDate <= IntendedExpiryDate.
C8_LiveNotAfterExpiry ==
    \A m \in Rows \cup Building :
        (m.IntendedLiveDate # NoDate /\ m.IntendedExpiryDate # NoDate)
        => m.IntendedLiveDate <= m.IntendedExpiryDate

C8_Witness ==
    resp.op = "shorten" /\ resp.http = 400 /\ resp.msg = MsgLiveAfterExpiry

\* C9: no creation request whose IntendedLiveDate is earlier than the time of
\* the request gets as far as a built urlMapping, reachable destination or not.
C9_PastLiveDateRejected ==
    \A m \in Rows \cup Building :
        m.IntendedLiveDate # NoDate => m.IntendedLiveDate >= m.LastCheckedAt

\* C10: a creation request rejected as unsafe has left its record, with a risk
\* score, at the end of malicious_logs.
C10_UnsafeIsLogged ==
    (resp.op = "shorten" /\ resp.msg = MsgUnsafe)
    => /\ Len(maliciousLogs) >= 1
       /\ maliciousLogs[Len(maliciousLogs)] = logMaliciousURL(resp.url)

MsgProbeError == "Error checking URL status. Please try again."

\* C11: no creation request is rejected because its liveness probe failed: a
\* probe that ends in a transport error or a timeout is never the reason of an
\* error response.
C11_ProbeFailureNotRejected ==
    ~(resp.op = "shorten" /\ resp.http = 500 /\ resp.msg = MsgProbeError)

\* the rows whose callback ran with the given outcome
CheckedWith(outcome) == {c.urlID : c \in {x \in checked : x.outcome = outcome}}

MsgDuplicate == "duplicate key value violates unique constraint"

\* C13: a creation request whose insert hit the unique index has regenerated
\* its code and inserted again: it ends in an error only after more than one
\* insert, every one of them a conflict.
C13_RetryOnConflict ==
    (resp.op = "shorten" /\ resp.err = MsgDuplicate) => resp.inserts > 1

\* the stored mappings whose IntendedExpiryDate has passed
Expired == {i \in 1..Len(urlMappings) :
                /\ urlMappings[i].IntendedExpiryDate # NoDate
                /\ urlMappings[i].IntendedExpiryDate < now}

Waiting(i) == {j \in jobs : j.urlID = i}
Ran(i) == {c \in checked : c.urlID = i}

\* a row's Status is written at creation and by its callback only
CreatedNotLive(i) == urlMappings[i].Status # "live" \/ Ran(i) # {}

\* C15: a mapping has had a re-check registered, and then exactly one, if and
\* only if it was created not live with an IntendedLiveDate later than its
\* creation; no callback has run before the IntendedLiveDate of its mapping.
C15_OneCheckWhenDue ==
    \A i \in 1..Len(urlMappings) :
        LET m == urlMappings[i]
            due == /\ CreatedNotLive(i)
                   /\ m.IntendedLiveDate # NoDate
                   /\ m.IntendedLiveDate > m.LastCheckedAt
        IN /\ Cardinality(Waiting(i)) + Cardinality(Ran(i)) = (IF due THEN 1 ELSE 0)
           /\ Ran(i) # {} => now >= m.IntendedLiveDate

\* the calls that probe the destination for liveness
LivenessFetch == {"CheckURLStatus", "CheckIfURLIsLive"}

\* C16: a creation request issues its liveness fetch only after its safety
\* check, and a request answered as unsafe has issued no liveness fetch.
C16_SafetyBeforeLiveness ==
    resp.op = "shorten" =>
        /\ \A i \in 1..Len(resp.calls) :
              resp.calls[i] \in LivenessFetch
              => \E j \in 1..(i - 1) : resp.calls[j] = "CheckSafeBrowsing"
        /\ resp.msg = MsgUnsafe
           => \A i \in 1..Len(resp.calls) : resp.calls[i] \notin LivenessFetch

\* C17: a creation request answered InvalidSyntax or NotHttps has issued no
\* outbound call: no safety check, no fetch of the destination.
C17_RejectedBeforeNetwork ==
    (resp.op = "shorten" /\ resp.msg \in {MsgInvalidSyntax, MsgNotHttps})
    => resp.calls = << >>

\* both rejections happen, in a build whose handler does issue calls later
C17_Witness ==
    /\ resp.op = "shorten" /\ resp.msg = MsgNotHttps /\ resp.calls = << >>
    /\ Len(Pipeline(build)) = 3

\* C18: for every callback that has run, running it once more with the same
\* outcome leaves the table as the first run left it; and a run that finds the
\* destination live leaves a mapping that is already live untouched.
C18_CheckIdempotent ==
    /\ \A c \in checked, dbErr \in BOOLEAN, probe \in LiveOutcomes :
          Outcome(dbErr, probe) = c.outcome
          => Checked(urlMappings, c.urlID, dbErr, probe) = urlMappings
    /\ \A i \in 1..Len(urlMappings) :
          urlMappings[i].Status = "live"
          => Checked(urlMappings, i, FALSE, "live") = urlMappings

\* a mapping made live by its callback
C18_Witness ==
    \E i \in CheckedWith("live") : urlMappings[i].Status = "live"

C20_DroppedFiring ==
    [][\A c \in checked' \ checked :
          c.outcome \in {"lookup error", "probe error"}
          => /\ urlMappings' = urlMappings
             /\ jobs' \subseteq jobs
             /\ \A j \in jobs' : j.urlID # c.urlID]_vars

\* a check dropped after a probe error, its mapping left as created
C20_Witness ==
    \E i \in CheckedWith("probe error") :
        /\ urlMappings[i].Status = "inactive"
        /\ urlMappings[i].LastCheckedAt < now
        /\ Waiting(i) = {}

\* the stored mappings that are inactive and have no IntendedLiveDate
Dormant(rows) ==
    {i \in 1..Len(rows) :
        rows[i].Status = "inactive" /\ rows[i].IntendedLiveDate = NoDate}

MsgSafetyUnavailable == "SafetyCheckUnavailable"
MsgSafetyFailed == "SafetyCheckFailed"

\* C22: a creation request whose safety check met a missing API key is
\* answered with the server-side error SafetyCheckUnavailable, one whose check
\* met a failed call or an undecodable answer with SafetyCheckFailed; neither
\* gets as far as a built urlMapping, and neither is answered as unsafe.
C22_SafetyCheckErrors ==
    /\ \A r \in BagToSet(inflight) : r.safety \notin {"no key", "failed"}
    /\ (resp.op = "shorten" /\ resp.safety \in {"no key", "failed"})
       => /\ resp.http >= 500
          /\ resp.msg = (IF resp.safety = "no key" THEN MsgSafetyUnavailable
                         ELSE MsgSafetyFailed)

\* C23: LastCheckedAt is the time of the last liveness probe of the mapping:
\* the time of its creation at first, and the time of every run of its
\* callback that probed the destination, whether or not Status changed.
C23_LastCheckedAtIsLastProbe ==
    [][/\ \A r \in BagToSet(inflight') \ BagToSet(inflight) :
             r.urlMapping.LastCheckedAt = now
       /\ \A c \in checked' \ checked :
             c.outcome \in {"live", "notlive"}
             => urlMappings'[c.urlID].LastCheckedAt = now]_vars

\* C24: a step in which ShortenURL writes an error response changes neither
\* url_mappings nor the registered callbacks; a row is added, one at a time,
\* only in the step that answers 200; and a callback is registered only in
\* such a step, for the ID of the row just inserted.
C24_ErrorLeavesNoTrace ==
    [][/\ (resp' # resp /\ resp'.op = "shorten" /\ resp'.http # 200)
          => urlMappings' = urlMappings /\ jobs' = jobs
       /\ urlMappings' # urlMappings /\ Len(urlMappings') # Len(urlMappings)
          => /\ Len(urlMappings') = Len(urlMappings) + 1
             /\ SubSeq(urlMappings', 1, Len(urlMappings)) = urlMappings
             /\ resp'.op = "shorten" /\ resp'.http = 200
       /\ \A j \in jobs' \ jobs :
             /\ Len(urlMappings') = Len(urlMappings) + 1
             /\ j.urlID = Len(urlMappings')
             /\ resp'.op = "shorten" /\ resp'.http = 200]_vars

\* a request of the scheduler build whose insert failed: no row, no callback
C24_Witness ==
    /\ resp.op = "shorten" /\ resp.http = 500 /\ resp.err = "store unavailable"
    /\ build = "scheduler"
    /\ urlMappings = << >> /\ jobs = {}

====
